---- MODULE Spec2Model ----
(***************************************************************************)
(* Model of the email analysis pipeline (backend/app/services/             *)
(* ai_service.py) and of its caching layer (backend/app/utils/caching.py). *)
(*                                                                         *)
(* Three specifications share the module:                                  *)
(*   SpecKey      generate_cache_key applied to pairs of argument lists    *)
(*   SpecAnalysis AiService.analyze_email_content without its decorator    *)
(*   Spec         the cache decorator, invalidate_cache and the store      *)
(***************************************************************************)
EXTENDS Integers, Sequences, FiniteSets, TLC

VARIABLES
    kq,     \* SpecKey: the pair of generate_cache_key calls being compared
    run,    \* SpecAnalysis: the orchestration that has just returned
    env,    \* Spec: value of the environment variable ENABLE_EMAIL_CACHE
    store,  \* Spec: content of the Redis database behind redis_client
    now,    \* Spec: seconds elapsed on the Redis server's clock
    last    \* Spec: the call that has just returned, with the store before it

vars == <<kq, run, env, store, now, last>>

Idle == [op |-> "idle"]

(***************************************************************************)
(* Text.  A string is a sequence of symbols; a symbol is a one-character   *)
(* string, or a longer string standing for a span of text whose inside is  *)
(* not looked at (the repr of an object or of a dict).                     *)
(***************************************************************************)
RECURSIVE Join(_, _)
Join(parts, sep) ==
    IF parts = <<>> THEN <<>>
    ELSE IF Len(parts) = 1 THEN Head(parts)
    ELSE Head(parts) \o sep \o Join(Tail(parts), sep)

IsPrefix(p, s) == Len(p) <= Len(s) /\ SubSeq(s, 1, Len(p)) = p

DigitChar(d) == <<"0", "1", "2", "3", "4", "5", "6", "7", "8", "9">>[d + 1]

\* str(n) of a non-negative int: its decimal digits.
RECURSIVE IntStr(_)
IntStr(n) == IF n < 10 THEN <<DigitChar(n)>>
             ELSE IntStr(n \div 10) \o <<DigitChar(n % 10)>>

(***************************************************************************)
(* Python values passed to a cached function.                              *)
(*   [t |-> "int", n]   an int                                             *)
(*   [t |-> "str", s]   a str, s its characters                            *)
(*   [t |-> "dict", d]  a dict (an email)                                  *)
(*   [t |-> "obj", at]  an AiService instance at memory address at         *)
(***************************************************************************)
PyInt(n) == [t |-> "int", n |-> n]
PyStr(s) == [t |-> "str", s |-> s]
PyDict(d) == [t |-> "dict", d |-> d]
PyObj(at) == [t |-> "obj", at |-> at]

\* str(x) as generate_cache_key applies it.  AiService defines neither
\* __str__ nor __repr__, so str(self) is object's default, which prints the
\* instance's address; str of a dict prints its items.
PyStrOf(x) ==
    CASE x.t = "int" -> IntStr(x.n)
      [] x.t = "str" -> x.s
      [] x.t = "dict" -> <<ToString(x.d)>>
      [] x.t = "obj" ->
           <<"<app.services.ai_service.AiService object at 0x" \o ToString(x.at) \o ">">>

(***************************************************************************)
(* generate_cache_key.  kwargs is the sequence of <<name, value>> items in *)
(* the order the caller supplied them (names distinct).                    *)
(***************************************************************************)
NameRank(k) == CASE k = "a" -> 1 [] k = "b" -> 2 [] OTHER -> 3

\* sorted(kwargs.items()): names are distinct, so the name decides.
RECURSIVE InsertItem(_, _)
InsertItem(item, sorted) ==
    IF sorted = <<>> THEN <<item>>
    ELSE IF NameRank(item[1]) <= NameRank(Head(sorted)[1])
         THEN <<item>> \o sorted
         ELSE <<Head(sorted)>> \o InsertItem(item, Tail(sorted))

RECURSIVE SortedItems(_)
SortedItems(kwargs) ==
    IF kwargs = <<>> THEN <<>>
    ELSE InsertItem(Head(kwargs), SortedItems(Tail(kwargs)))

\* key_parts: the name, str(arg) per positional, f"{k}:{v}" per sorted item.
KeyParts(func_name, args, kwargs) ==
    <<func_name>>
    \o [i \in 1..Len(args) |-> PyStrOf(args[i])]
    \o [i \in 1..Len(kwargs) |->
          <<SortedItems(kwargs)[i][1]>> \o <<":">> \o PyStrOf(SortedItems(kwargs)[i][2])]

KeyString(func_name, args, kwargs) == Join(KeyParts(func_name, args, kwargs), <<"_">>)

CachePrefix == "intellimail:cache:"

\* A Redis key name: pre \o lit \o md5hex(md5), where md5 = <<>> stands for
\* "no digest part".  The MD5 digest is kept as the string it digests, that
\* is, the hash is taken to be injective.
GenerateCacheKey(func_name, args, kwargs) ==
    [pre |-> CachePrefix, lit |-> <<>>, md5 |-> KeyString(func_name, args, kwargs)]

(***************************************************************************)
(* SpecKey: inputs of generate_cache_key.                                  *)
(***************************************************************************)
MaxParts == 2

KeyFuncs == { <<"f">>, <<"f", "_", "2">> }
KeyVals == { PyInt(2), PyInt(3), PyStr(<<"2">>),
             PyStr(<<"2", "_", "a", ":", "2">>), PyStr(<<"a", ":", "2">>) }
KwNames == {"a", "b"}

KeyArgs == UNION { [1..n -> KeyVals] : n \in 0..MaxParts }
KeyKwargs ==
    { kw \in UNION { [1..n -> KwNames \X KeyVals] : n \in 0..Cardinality(KwNames) } :
        \A i, j \in 1..Len(kw) : i # j => kw[i][1] # kw[j][1] }
KeyCalls ==
    { c \in [fn : KeyFuncs, args : KeyArgs, kwargs : KeyKwargs] :
        Len(c.args) + Len(c.kwargs) <= MaxParts }

KeyOf(c) == GenerateCacheKey(c.fn, c.args, c.kwargs)

\* The keyword arguments as a map, the order of supply forgotten.
KwValue(kw, k) == kw[CHOOSE i \in 1..Len(kw) : kw[i][1] = k][2]
KwDom(kw) == {kw[i][1] : i \in 1..Len(kw)}
SameKwargs(k1, k2) ==
    KwDom(k1) = KwDom(k2) /\ \A k \in KwDom(k1) : KwValue(k1, k) = KwValue(k2, k)

\* Nothing is in flight, the store is empty, the environment variable unset.
Init ==
    /\ kq = Idle /\ run = Idle /\ env = "unset" /\ store = {} /\ now = 0
    /\ last = Idle

GenerateKeys(a, b) ==
    /\ kq = Idle
    /\ kq' = [op |-> "keys", a |-> a, b |-> b, ka |-> KeyOf(a), kb |-> KeyOf(b)]
    /\ UNCHANGED <<run, env, store, now, last>>

ForgetKeys ==
    /\ kq # Idle
    /\ kq' = Idle
    /\ UNCHANGED <<run, env, store, now, last>>

NextKey ==
    \/ kq = Idle /\ \E a, b \in KeyCalls : GenerateKeys(a, b)
    \/ ForgetKeys

SpecKey == Init /\ [][NextKey]_vars

\* Two calls with the same logical arguments.
SameLogicalCall(a, b) ==
    a.fn = b.fn /\ a.args = b.args /\ SameKwargs(a.kwargs, b.kwargs)

\* b is a with the value of exactly one keyword argument changed.
OneKwargChanged(a, b) ==
    /\ a.fn = b.fn /\ a.args = b.args /\ KwDom(a.kwargs) = KwDom(b.kwargs)
    /\ Cardinality({k \in KwDom(a.kwargs) :
                       KwValue(a.kwargs, k) # KwValue(b.kwargs, k)}) = 1

\* Keyword order is irrelevant: same logical arguments, same key.
KeyOrderIndependent ==
    kq.op = "keys" /\ SameLogicalCall(kq.a, kq.b) => kq.ka = kq.kb

\* C4: generate_cache_key gives two calls with the same logical arguments
\* the same key whatever the order of the keyword arguments, and gives a
\* different key when the value of one keyword argument is changed.
C4_KeyDeterminism ==
    kq.op = "keys" =>
        /\ SameLogicalCall(kq.a, kq.b) => kq.ka = kq.kb
        /\ OneKwargChanged(kq.a, kq.b) => kq.ka # kq.kb

\* C5: with the hash injective, two calls of generate_cache_key that return
\* the same key have the same operation identifier, the same positional
\* arguments in order and the same keyword arguments.
C5_SameKeySameInputs ==
    kq.op = "keys" /\ kq.ka = kq.kb => SameLogicalCall(kq.a, kq.b)

(***************************************************************************)
(* Text of an email.  The characters of a subject or body are not kept;    *)
(* what the analyzers read of them is:                                     *)
(*   len   the number of characters                                        *)
(*   occ   the occurrences of the scorer's keywords: the list the word is  *)
(*         in ("urgent" or "action"), the position of its last character   *)
(*         and whether it is written with upper-case letters               *)
(* [kind |-> "none"] is Python's None.  Scores are in hundredths.          *)
(***************************************************************************)
NoneVal == [kind |-> "none"]
Txt(n, occ) == [kind |-> "str", len |-> n, occ |-> occ]
Occ(cls, end, upper) == [cls |-> cls, end |-> end, upper |-> upper]
EmptyStr == Txt(0, {})

Min(a, b) == IF a < b THEN a ELSE b
Max(a, b) == IF a > b THEN a ELSE b

\* Mutant of Truthy: the test "text is None" in place of "not text".
TruthyIsNotNone(t) == t.kind # "none"

\* bool(x) of a str or None.
Truthy(t) == t.kind = "str" /\ t.len > 0

\* t.lower()
LowerTxt(t) == [t EXCEPT !.occ = {Occ(o.cls, o.end, FALSE) : o \in t.occ}]

\* t[:n]
PrefixTxt(t, n) == [t EXCEPT !.len = Min(t.len, n), !.occ = {o \in t.occ : o.end <= n}]

\* any(word in t for word in keywords), the keywords being lower-case.
AnyKeywordIn(t, cls) == \E o \in t.occ : o.cls = cls /\ ~o.upper

\* email.get(field, "")
DictGet(d, field) == IF field \in DOMAIN d THEN d[field] ELSE EmptyStr

(***************************************************************************)
(* Text returned by a model: a sequence of symbols, whitespace and         *)
(* punctuation one character each.                                         *)
(***************************************************************************)
Whitespace == {" ", "\n", "\t"}
Digits == {"0", "1", "2", "3", "4", "5", "6", "7", "8", "9"}

\* The characters str.isdigit() accepts: the ASCII digits and the digits of
\* other scripts and forms, here CIRCLED DIGIT ONE.
IsDigitChars == Digits \cup {"U+2460"}

RECURSIVE LStrip(_, _)
LStrip(s, chars) ==
    IF s # <<>> /\ Head(s) \in chars THEN LStrip(Tail(s), chars) ELSE s

RECURSIVE RStrip(_, _)
RStrip(s, chars) ==
    IF s # <<>> /\ s[Len(s)] \in chars THEN RStrip(SubSeq(s, 1, Len(s) - 1), chars) ELSE s

\* s.strip()
Strip(s) == RStrip(LStrip(s, Whitespace), Whitespace)

\* s.split(sep)
RECURSIVE Split(_, _)
Split(s, sep) ==
    IF \A i \in 1..Len(s) : s[i] # sep THEN <<s>>
    ELSE LET i == CHOOSE j \in 1..Len(s) : s[j] = sep /\ \A k \in 1..(j - 1) : s[k] # sep
         IN  <<SubSeq(s, 1, i - 1)>> \o Split(SubSeq(s, i + 1, Len(s)), sep)

RECURSIVE SelectNonEmpty(_)
SelectNonEmpty(seq) ==
    IF seq = <<>> THEN <<>>
    ELSE IF Head(seq) = <<>> THEN SelectNonEmpty(Tail(seq))
    ELSE <<Head(seq)>> \o SelectNonEmpty(Tail(seq))

(***************************************************************************)
(* The sub-analyzers.  resp holds what each backend answers when it        *)
(* answers; fails is the set of backends that raise instead (network       *)
(* error, timeout, malformed response).  The body of a sub-analyzer gives  *)
(* [raised, val, calls]: whether an exception left the try block, the      *)
(* value returned otherwise, and the backend calls made, in order.         *)
(***************************************************************************)
Backends == {"summary", "sentiment", "entities", "categories", "action_items", "topics"}

Returned(val, calls) == [raised |-> FALSE, val |-> val, calls |-> calls]
Raised(calls) == [raised |-> TRUE, val |-> NoneVal, calls |-> calls]

\* Mutant of CatchAll: the except clause is missing.
CatchNothing(body, fallback) == body

\* try: <body> except Exception: return <fallback>
CatchAll(body, fallback) ==
    IF body.raised THEN Returned(fallback, body.calls) ELSE body

DirectLimit == 4000
UrgentPrefix == 500
ActionPrefix == 1000

SummaryFallback == <<"Could not generate summary.">>

\* Mutant of SummaryBody: a body of exactly 4000 characters is still
\* summarized by the direct request.
SummaryBodyInclusive(subject, text, resp, fails) ==
    IF text.len <= DirectLimit
    THEN IF "summary" \in fails
         THEN Raised(<<"chat.completions.create:summary">>)
         ELSE Returned(Strip(resp.summary), <<"chat.completions.create:summary">>)
    ELSE IF "summary" \in fails
         THEN Raised(<<"text_splitter.split_text", "summarize_chain.run">>)
         ELSE Returned(Strip(resp.summary),
                       <<"text_splitter.split_text", "summarize_chain.run">>)

SummaryBody(subject, text, resp, fails) ==
    IF text.len < DirectLimit
    THEN IF "summary" \in fails
         THEN Raised(<<"chat.completions.create:summary">>)
         ELSE Returned(Strip(resp.summary), <<"chat.completions.create:summary">>)
    ELSE IF "summary" \in fails
         THEN Raised(<<"text_splitter.split_text", "summarize_chain.run">>)
         ELSE Returned(Strip(resp.summary),
                       <<"text_splitter.split_text", "summarize_chain.run">>)

GenerateSummary(subject, text, resp, fails) ==
    CatchAll(SummaryBody(subject, text, resp, fails), SummaryFallback)

\* result["label"].lower()
LowerLabel(l) ==
    CASE l \in {"POSITIVE", "Positive"} -> "positive"
      [] l \in {"NEGATIVE", "Negative"} -> "negative"
      [] l \in {"NEUTRAL", "Neutral"} -> "neutral"
      [] l = "LABEL_1" -> "label_1"
      [] OTHER -> l

\* Mutant of StandardLabel: the thresholds 0.7 and 0.3 belong to the
\* polarities.
StandardLabelInclusive(label, score) ==
    IF label = "positive" \/ (label = "neutral" /\ score >= 70) THEN "positive"
    ELSE IF label = "negative" \/ (label = "neutral" /\ score <= 30) THEN "negative"
    ELSE "neutral"

\* The mapping to the standardized labels.
StandardLabel(label, score) ==
    IF label = "positive" \/ (label = "neutral" /\ score > 70) THEN "positive"
    ELSE IF label = "negative" \/ (label = "neutral" /\ score < 30) THEN "negative"
    ELSE "neutral"

SentimentFallback == [label |-> "neutral", score |-> 50]

SentimentBody(text, resp, fails) ==
    IF "sentiment" \in fails THEN Raised(<<"sentiment_model">>)
    ELSE Returned([label |-> StandardLabel(LowerLabel(resp.sentiment.label),
                                           resp.sentiment.score),
                   score |-> resp.sentiment.score],
                  <<"sentiment_model">>)

AnalyzeSentiment(text, resp, fails) ==
    CatchAll(SentimentBody(text, resp, fails), SentimentFallback)

EntitiesBody(text, resp, fails) ==
    IF "entities" \in fails THEN Raised(<<"nlp">>)
    ELSE Returned([i \in 1..Len(resp.ents) |->
                     [text |-> resp.ents[i].text, label |-> resp.ents[i].label_,
                      start |-> resp.ents[i].start_char, end |-> resp.ents[i].end_char]],
                  <<"nlp">>)

ExtractEntities(text, resp, fails) == CatchAll(EntitiesBody(text, resp, fails), <<>>)

CategoriesFallback == << <<"Uncategorized">> >>

CategoriesBody(subject, text, resp, fails) ==
    IF "categories" \in fails THEN Raised(<<"chat.completions.create:categories">>)
    ELSE LET pieces == Split(resp.categories, ",")
         IN  Returned(SelectNonEmpty([i \in 1..Len(pieces) |-> Strip(pieces[i])]),
                      <<"chat.completions.create:categories">>)

CategorizeEmail(subject, text, resp, fails) ==
    CatchAll(CategoriesBody(subject, text, resp, fails), CategoriesFallback)

InterestLabels == {"PERSON", "ORG"}

RECURSIVE CountInterest(_)
CountInterest(entities) ==
    IF entities = <<>> THEN 0
    ELSE (IF Head(entities).label \in InterestLabels THEN 1 ELSE 0)
         + CountInterest(Tail(entities))

\* What raises inside _calculate_importance: subject.lower() or text.lower()
\* of a value that is no str, e["label"] of an entity without a label.
ImportanceRaises(subject, text, entities) ==
    \/ subject.kind # "str"
    \/ text.kind # "str"
    \/ \E i \in 1..Len(entities) : "label" \notin DOMAIN entities[i]

ImportanceFallback == 50

\* Mutant of ImportanceBody: the contribution of the entities is not capped.
ImportanceUncapped(subject, text, entities) ==
    IF ImportanceRaises(subject, text, entities) THEN Raised(<<>>)
    ELSE LET s1 == IF AnyKeywordIn(LowerTxt(subject), "urgent") THEN 40 ELSE 0
             s2 == IF AnyKeywordIn(PrefixTxt(LowerTxt(text), UrgentPrefix), "urgent")
                   THEN 20 ELSE 0
             s3 == IF AnyKeywordIn(PrefixTxt(LowerTxt(text), ActionPrefix), "action")
                   THEN 20 ELSE 0
             s4 == CountInterest(entities) * 5
         IN  Returned(Min(Max(s1 + s2 + s3 + s4, 0), 100), <<>>)

ImportanceBody(subject, text, entities) ==
    IF ImportanceRaises(subject, text, entities) THEN Raised(<<>>)
    ELSE LET s1 == IF AnyKeywordIn(LowerTxt(subject), "urgent") THEN 40 ELSE 0
             s2 == IF AnyKeywordIn(PrefixTxt(LowerTxt(text), UrgentPrefix), "urgent")
                   THEN 20 ELSE 0
             s3 == IF AnyKeywordIn(PrefixTxt(LowerTxt(text), ActionPrefix), "action")
                   THEN 20 ELSE 0
             s4 == Min(CountInterest(entities) * 5, 20)
         IN  Returned(Min(Max(s1 + s2 + s3 + s4, 0), 100), <<>>)

\* Mutant of CalculateImportance: the except clause is missing.
CalculateImportanceUncaught(subject, text, entities) ==
    ImportanceBody(subject, text, entities)

CalculateImportance(subject, text, entities) ==
    CatchAll(ImportanceBody(subject, text, entities), ImportanceFallback)

\* The line filter shared by _extract_action_items and _extract_topics.
LineAccepted(line) ==
    /\ line # <<>>
    /\ \/ Head(line) = "-"
       \/ Head(line) = "*"
       \/ \E i \in 1..Min(2, Len(line)) : line[i] \in IsDigitChars

BulletChars == {"-", "*", ".", " "} \cup Digits

\* Mutant of CleanLines: the test "if item:" is missing.
RECURSIVE CleanLinesKeepEmpty(_)
CleanLinesKeepEmpty(lines) ==
    IF lines = <<>> THEN <<>>
    ELSE LET line == Strip(Head(lines))
             item == LStrip(line, BulletChars)
         IN  (IF LineAccepted(line) THEN <<item>> ELSE <<>>)
             \o CleanLinesKeepEmpty(Tail(lines))

RECURSIVE CleanLines(_)
CleanLines(lines) ==
    IF lines = <<>> THEN <<>>
    ELSE LET line == Strip(Head(lines))
             item == LStrip(line, BulletChars)
         IN  (IF LineAccepted(line) /\ item # <<>> THEN <<item>> ELSE <<>>)
             \o CleanLines(Tail(lines))

ActionItemsBody(text, resp, fails) ==
    IF "action_items" \in fails THEN Raised(<<"chat.completions.create:action_items">>)
    ELSE Returned(CleanLines(Split(Strip(resp.action_items), "\n")),
                  <<"chat.completions.create:action_items">>)

ExtractActionItems(text, resp, fails) == CatchAll(ActionItemsBody(text, resp, fails), <<>>)

TopicsBody(text, resp, fails) ==
    IF "topics" \in fails THEN Raised(<<"chat.completions.create:topics">>)
    ELSE Returned(CleanLines(Split(Strip(resp.topics), "\n")),
                  <<"chat.completions.create:topics">>)

ExtractTopics(text, resp, fails) == CatchAll(TopicsBody(text, resp, fails), <<>>)

(***************************************************************************)
(* AiService.analyze_email_content, the decorator left aside.              *)
(***************************************************************************)
DefaultResult ==
    [summary |-> <<"No content to analyze">>, sentiment |-> "neutral",
     entities |-> <<>>, categories |-> <<>>, importance_score |-> 0,
     action_items |-> <<>>, topics |-> <<>>]

\* Mutant of Analyze: the importance score is computed before the entities
\* are extracted, from an empty list.
AnalyzeScoringFirst(email, resp, fails) ==
    LET text == DictGet(email, "body")
        subject == DictGet(email, "subject")
    IN  IF ~Truthy(text) THEN Returned(DefaultResult, <<>>)
        ELSE
        LET summary == GenerateSummary(subject, text, resp, fails)
            sentiment == AnalyzeSentiment(text, resp, fails)
            entities == ExtractEntities(text, resp, fails)
            categories == CategorizeEmail(subject, text, resp, fails)
            importance == CalculateImportance(subject, text, <<>>)
            action_items == ExtractActionItems(text, resp, fails)
            topics == ExtractTopics(text, resp, fails)
            steps == << <<"_generate_summary", summary>>,
                        <<"_analyze_sentiment", sentiment>>,
                        <<"_calculate_importance", importance>>,
                        <<"_categorize_email", categories>>,
                        <<"_extract_entities", entities>>,
                        <<"_extract_action_items", action_items>>,
                        <<"_extract_topics", topics>> >>
            \* the first sub-analyzer an exception leaves, 8 if none
            stop == IF \E i \in 1..7 : steps[i][2].raised
                    THEN CHOOSE i \in 1..7 : /\ steps[i][2].raised
                                             /\ \A j \in 1..(i - 1) : ~steps[j][2].raised
                    ELSE 8
            calls == Join([i \in 1..Min(stop, 7) |-> <<steps[i][1]>> \o steps[i][2].calls],
                          <<>>)
        IN  IF stop <= 7 THEN Raised(calls)
            ELSE Returned([summary |-> summary.val,
                           sentiment |-> sentiment.val.label,
                           sentiment_score |-> sentiment.val.score,
                           entities |-> entities.val,
                           categories |-> categories.val,
                           importance_score |-> importance.val,
                           action_items |-> action_items.val,
                           topics |-> topics.val],
                          calls)

\* An exception leaving a sub-analyzer leaves analyze_email_content too:
\* nothing is caught at this level.
Analyze(email, resp, fails) ==
    LET text == DictGet(email, "body")
        subject == DictGet(email, "subject")
    IN  IF ~Truthy(text) THEN Returned(DefaultResult, <<>>)
        ELSE
        LET summary == GenerateSummary(subject, text, resp, fails)
            sentiment == AnalyzeSentiment(text, resp, fails)
            entities == ExtractEntities(text, resp, fails)
            categories == CategorizeEmail(subject, text, resp, fails)
            importance == IF entities.raised THEN entities
                          ELSE CalculateImportance(subject, text, entities.val)
            action_items == ExtractActionItems(text, resp, fails)
            topics == ExtractTopics(text, resp, fails)
            steps == << <<"_generate_summary", summary>>,
                        <<"_analyze_sentiment", sentiment>>,
                        <<"_extract_entities", entities>>,
                        <<"_categorize_email", categories>>,
                        <<"_calculate_importance", importance>>,
                        <<"_extract_action_items", action_items>>,
                        <<"_extract_topics", topics>> >>
            \* the first sub-analyzer an exception leaves, 8 if none
            stop == IF \E i \in 1..7 : steps[i][2].raised
                    THEN CHOOSE i \in 1..7 : /\ steps[i][2].raised
                                             /\ \A j \in 1..(i - 1) : ~steps[j][2].raised
                    ELSE 8
            calls == Join([i \in 1..Min(stop, 7) |-> <<steps[i][1]>> \o steps[i][2].calls],
                          <<>>)
        IN  IF stop <= 7 THEN Raised(calls)
            ELSE Returned([summary |-> summary.val,
                           sentiment |-> sentiment.val.label,
                           sentiment_score |-> sentiment.val.score,
                           entities |-> entities.val,
                           categories |-> categories.val,
                           importance_score |-> importance.val,
                           action_items |-> action_items.val,
                           topics |-> topics.val],
                          calls)

(***************************************************************************)
(* SpecAnalysis: emails and backend answers.                               *)
(***************************************************************************)
\* "URGENT: deadline tomorrow", "ASAP", "Hello", None
Subjects ==
    { Txt(25, {Occ("urgent", 6, TRUE), Occ("urgent", 16, FALSE)}),
      Txt(4, {Occ("urgent", 4, TRUE)}),
      Txt(5, {}),
      NoneVal }

\* "", None, a short body, a short body starting "Please review", a body of
\* 4000 characters with a keyword just past each scanned prefix
Bodies ==
    { EmptyStr,
      NoneVal,
      Txt(120, {}),
      Txt(120, {Occ("action", 13, TRUE)}),
      Txt(4000, {Occ("urgent", 501, FALSE), Occ("action", 1001, FALSE)}) }

\* An email is a dict with the keys id and subject and, unless the provider
\* sent none, body.
Emails ==
    [id : {"m1"}, subject : Subjects, body : Bodies] \cup [id : {"m1"}, subject : Subjects]

Span(text, label, start, end) ==
    [text |-> text, label_ |-> label, start_char |-> start, end_char |-> end]

Responses ==
    { [summary |-> <<" ", "Budget review on Friday.", "\n">>,
       sentiment |-> [label |-> "POSITIVE", score |-> 99],
       ents |-> <<Span("Ann", "PERSON", 0, 3)>>,
       categories |-> <<"Urgent", ",", " ", "Meeting">>,
       action_items |-> <<"-", " ", "Send the report", "\n", "2", ".", " ", "Call client",
                          "\n", "Not a bullet">>,
       topics |-> <<"*", " ", "Budget", "\n", "1", ".", " ", "Friday">>],
      [summary |-> <<"Short.">>,
       sentiment |-> [label |-> "neutral", score |-> 80],
       ents |-> <<Span("Ann", "PERSON", 0, 3), Span("Acme", "ORG", 9, 13),
                  Span("Bob", "PERSON", 20, 23), Span("Friday", "DATE", 30, 36),
                  Span("Cy", "PERSON", 40, 42), Span("Initech", "ORG", 50, 57)>>,
       categories |-> <<" ", "Finance", " ", ",", ",", "Spam">>,
       action_items |-> <<"None">>,
       topics |-> <<"-", "-", "\n", "A", "1", " ", "sauce">>],
      [summary |-> <<>>,
       sentiment |-> [label |-> "NEGATIVE", score |-> 95],
       ents |-> <<>>,
       categories |-> <<>>,
       action_items |-> <<>>,
       topics |-> <<>>] }

\* One call of analyze_email_content.
AnalyzeEmail(email, resp, fails) ==
    /\ run = Idle
    /\ run' = [op |-> "analyze", email |-> email, resp |-> resp, fails |-> fails,
               out |-> Analyze(email, resp, fails)]
    /\ UNCHANGED <<kq, env, store, now, last>>

\* The caller takes the result.
ReturnAnalysis ==
    /\ run # Idle
    /\ run' = Idle
    /\ UNCHANGED <<kq, env, store, now, last>>

NextAnalysis ==
    \/ run = Idle /\ \E email \in Emails, resp \in Responses, fails \in SUBSET Backends :
                        AnalyzeEmail(email, resp, fails)
    \/ ReturnAnalysis

SpecAnalysis == Init /\ [][NextAnalysis]_vars

BodyOf(email) == IF "body" \in DOMAIN email THEN email.body ELSE EmptyStr
SubjectOf(email) == IF "subject" \in DOMAIN email THEN email.subject ELSE EmptyStr

EmptyOrMissingBody(email) ==
    \/ "body" \notin DOMAIN email
    \/ email.body.kind = "none"
    \/ email.body.kind = "str" /\ email.body.len = 0

\* C1: for an email whose body is empty or missing, analyze_email_content
\* returns exactly the default result and calls no sub-analyzer and no
\* backend.
C1_EmptyBodyDefault ==
    run.op = "analyze" /\ EmptyOrMissingBody(run.email) =>
        /\ ~run.out.raised
        /\ run.out.val = [summary |-> <<"No content to analyze">>, sentiment |-> "neutral",
                          entities |-> <<>>, categories |-> <<>>, importance_score |-> 0,
                          action_items |-> <<>>, topics |-> <<>>]
        /\ run.out.calls = <<>>

\* An email without a body was analysed while every backend was failing.
C1_Witness ==
    /\ run.op = "analyze"
    /\ "body" \notin DOMAIN run.email
    /\ run.fails = Backends
    /\ run.out.val.summary = <<"No content to analyze">>

ResultFields ==
    {"summary", "sentiment", "sentiment_score", "entities", "categories",
     "importance_score", "action_items", "topics"}

\* What one sub-analyzer contributes to a result.
Contribution(a, result) ==
    CASE a = "summary" -> result.summary
      [] a = "sentiment" -> <<result.sentiment, result.sentiment_score>>
      [] a = "entities" -> result.entities
      [] a = "categories" -> result.categories
      [] a = "importance" -> result.importance_score
      [] a = "action_items" -> result.action_items
      [] a = "topics" -> result.topics

\* The sub-analyzers that fail in the orchestration that has returned: the
\* ones whose backend raises, and the scorer when the subject is no string.
Failing ==
    run.fails \cup (IF SubjectOf(run.email).kind # "str" THEN {"importance"} ELSE {})

\* No exception, every field present, the documented fallback for every
\* failing sub-analyzer.
FallbacksApplied ==
    /\ ~run.out.raised
    /\ DOMAIN run.out.val = ResultFields
    /\ "summary" \in Failing => run.out.val.summary = <<"Could not generate summary.">>
    /\ "sentiment" \in Failing =>
           run.out.val.sentiment = "neutral" /\ run.out.val.sentiment_score = 50
    /\ "entities" \in Failing => run.out.val.entities = <<>>
    /\ "categories" \in Failing => run.out.val.categories = << <<"Uncategorized">> >>
    /\ "importance" \in Failing => run.out.val.importance_score = 50
    /\ "action_items" \in Failing => run.out.val.action_items = <<>>
    /\ "topics" \in Failing => run.out.val.topics = <<>>

\* The result of the same email and the same backend answers, no backend failing.
Baseline == Analyze(run.email, run.resp, {}).val

\* C2 as stated: with a non-empty body and any set of failing
\* sub-analyzers, no exception, all fields, the fallback of each failing
\* sub-analyzer, and for every other sub-analyzer the value it contributes
\* when nothing fails.
C2_Original ==
    run.op = "analyze" /\ ~EmptyOrMissingBody(run.email) =>
        /\ FallbacksApplied
        /\ \A a \in (Backends \cup {"importance"}) \ Failing :
               Contribution(a, run.out.val) = Contribution(a, Baseline)

\* The score of the subject, the body and a list of entities, as section
\* 4.6 of the specification words it.
ExpectedScore(email, entities) ==
    LET subj == SubjectOf(email)
        body == BodyOf(email)
        people == Cardinality({i \in 1..Len(entities) :
                                 entities[i].label \in {"PERSON", "ORG"}})
        sum == (IF \E o \in subj.occ : o.cls = "urgent" THEN 40 ELSE 0)
               + (IF \E o \in body.occ : o.cls = "urgent" /\ o.end <= 500 THEN 20 ELSE 0)
               + (IF \E o \in body.occ : o.cls = "action" /\ o.end <= 1000 THEN 20 ELSE 0)
               + (IF people >= 4 THEN 20 ELSE 5 * people)
    IN  IF sum > 100 THEN 100 ELSE sum

\* C2 as amended: the same, except that the importance score, when the
\* scorer itself does not fail, is the score of the subject, the body and
\* the entity list of the same result (empty when entity extraction failed).
C2_FallbacksIndependent ==
    run.op = "analyze" /\ ~EmptyOrMissingBody(run.email) =>
        /\ FallbacksApplied
        /\ \A a \in Backends \ Failing :
               Contribution(a, run.out.val) = Contribution(a, Baseline)
        /\ "importance" \notin Failing =>
               run.out.val.importance_score = ExpectedScore(run.email, run.out.val.entities)

\* Entity extraction and the summary failed, the other sub-analyzers did
\* not, and the importance score is lower than with no failure.
C2_Witness ==
    /\ run.op = "analyze"
    /\ ~EmptyOrMissingBody(run.email)
    /\ run.fails = {"entities", "summary"}
    /\ ~run.out.raised
    /\ run.out.val.topics # <<>>
    /\ run.out.val.importance_score < Baseline.importance_score

\* C21: in an orchestration the scorer is called after the entity extractor
\* (and its backend) has returned, and the score is the one of the entity
\* list in the result's entities field; when extraction fails that list is
\* empty and the entities contribute nothing.
C21_ScoringAfterEntities ==
    run.op = "analyze" /\ ~EmptyOrMissingBody(run.email) /\ ~run.out.raised =>
        /\ \E i, j, k \in 1..Len(run.out.calls) :
               /\ run.out.calls[i] = "_extract_entities"
               /\ run.out.calls[j] = "nlp"
               /\ run.out.calls[k] = "_calculate_importance"
               /\ i < j /\ j < k
        /\ \A k \in 1..Len(run.out.calls) :
               run.out.calls[k] = "_calculate_importance" =>
                   \E i \in 1..(k - 1) : run.out.calls[i] = "_extract_entities"
        /\ SubjectOf(run.email).kind = "str" =>
               run.out.val.importance_score = ExpectedScore(run.email, run.out.val.entities)
        /\ "entities" \in run.fails =>
               /\ run.out.val.entities = <<>>
               /\ SubjectOf(run.email).kind = "str" =>
                      run.out.val.importance_score = ExpectedScore(run.email, <<>>)

\* Only entity extraction failed, for a text in which the extractor would
\* have found persons and organisations: the score has no entity part.
C21_Witness ==
    /\ run.op = "analyze"
    /\ ~EmptyOrMissingBody(run.email)
    /\ run.fails = {"entities"}
    /\ Len(run.resp.ents) > 4
    /\ SubjectOf(run.email).kind = "str"
    /\ run.out.val.entities = <<>>
    /\ run.out.val.importance_score + 20 = Baseline.importance_score

(***************************************************************************)
(* SpecParts: the sub-analyzers called one at a time, each with the        *)
(* answers its backend can give.                                           *)
(***************************************************************************)
\* What the sentiment pipeline returns for a text: a label and a score.
RawLabels ==
    {"POSITIVE", "NEGATIVE", "NEUTRAL", "positive", "negative", "neutral", "Neutral", "LABEL_1"}
RawScores == {0, 20, 29, 30, 31, 50, 69, 70, 71, 80, 99, 100}

\* A body shorter and a body longer than the 512 characters the classifier
\* is given.
SentimentTexts == {Txt(120, {}), Txt(600, {})}

\* _analyze_sentiment(text), the classifier answering (label, score) or
\* failing.
ClassifySentiment(text, label, score, fails) ==
    /\ run' = [op |-> "sentiment", text |-> text, raw |-> [label |-> label, score |-> score],
               fails |-> fails,
               out |-> AnalyzeSentiment(text, [sentiment |-> [label |-> label, score |-> score]],
                                        fails)]
    /\ UNCHANGED <<kq, env, store, now, last>>

MaxEntities == 5

\* An entity as _extract_entities builds it.
Ent(label) == [text |-> "e", label |-> label, start |-> 0, end |-> 1]

\* n entities labelled PERSON and ORG in turn.
People(n) == [i \in 1..n |-> Ent(IF i % 2 = 1 THEN "PERSON" ELSE "ORG")]

\* Entity lists: up to MaxEntities persons and organisations, alone or
\* followed by a date, by None or by a dict without a label.
EntityLists ==
    {People(n) \o extra :
        n \in 0..MaxEntities,
        extra \in {<<>>, <<Ent("DATE")>>, <<NoneVal>>, <<[text |-> "x"]>>}}

\* "URGENT: deadline tomorrow", "asap", "Hello", None
ScoredSubjects ==
    { Txt(25, {Occ("urgent", 6, TRUE), Occ("urgent", 16, FALSE)}),
      Txt(4, {Occ("urgent", 4, FALSE)}),
      Txt(5, {}),
      NoneVal }

\* Bodies: no keyword; "Please review" at the start; a keyword ending at
\* the last character of each scanned prefix; one ending just past it;
\* an upper-case urgent keyword with an action keyword; "" and None.
ScoredBodies ==
    { Txt(120, {}),
      Txt(120, {Occ("action", 6, TRUE), Occ("action", 13, FALSE)}),
      Txt(4000, {Occ("urgent", UrgentPrefix, FALSE), Occ("action", ActionPrefix, FALSE)}),
      Txt(4000, {Occ("urgent", UrgentPrefix + 1, FALSE), Occ("action", ActionPrefix + 1, FALSE)}),
      Txt(700, {Occ("urgent", 9, TRUE), Occ("action", 600, FALSE)}),
      Txt(700, {Occ("action", 400, FALSE), Occ("urgent", 600, FALSE)}),
      EmptyStr,
      NoneVal }

\* _calculate_importance(subject, text, entities)
ScoreImportance(subject, text, entities) ==
    /\ run' = [op |-> "importance", subject |-> subject, text |-> text,
               entities |-> entities,
               out |-> CalculateImportance(subject, text, entities)]
    /\ UNCHANGED <<kq, env, store, now, last>>

MaxCats == 2

\* The labels the categorization prompt lists.
PromptLabels ==
    {"Urgent", "Action Required", "Meeting", "Information", "Project Update",
     "External Client", "Internal Team", "Personal", "Marketing", "Sales", "HR",
     "Finance", "Technical"}

\* What the model may name: a label of the prompt, or a label of its own.
NamedLabels == PromptLabels \cup {"Spam", "urgent"}

\* Answers to the categorization prompt: up to MaxCats names separated by
\* ", ", and the same with white space around.
CategoryAnswers ==
    LET lists == UNION {[1..n -> NamedLabels] : n \in 0..MaxCats}
        plain == {Join([i \in 1..Len(l) |-> <<l[i]>>], <<",", " ">>) : l \in lists}
    IN  plain \cup {<<" ">> \o a \o <<"\n">> : a \in plain}

\* _categorize_email(subject, text), the model answering or failing.
Categorize(answer, fails) ==
    /\ run' = [op |-> "categorize", answer |-> answer, fails |-> fails,
               out |-> CategorizeEmail(Txt(5, {}), Txt(120, {}), [categories |-> answer],
                                       fails)]
    /\ UNCHANGED <<kq, env, store, now, last>>

MaxOutLen == 4

\* Characters of an answer to the extraction prompts: bullets, a digit, a
\* digit outside ASCII, a period, a space, a line break and a letter.
OutChars == {"-", "*", "1", "U+2460", ".", " ", "\n", "a"}

\* "- Send the report\n2. Call client\nNot a bullet"
ExampleAnswer ==
    <<"-", " ", "Send the report", "\n", "2", ".", " ", "Call client", "\n", "Not a bullet">>

\* Answers of the model: every text of up to MaxOutLen characters, and the
\* example.
LineAnswers == UNION {[1..n -> OutChars] : n \in 0..MaxOutLen} \cup {ExampleAnswer}

\* _extract_action_items(text) and _extract_topics(text), the model giving
\* the same answer to both prompts, or failing.
ExtractLists(answer, fails) ==
    /\ run' = [op |-> "lines", answer |-> answer, fails |-> fails,
               items |-> ExtractActionItems(Txt(120, {}), [action_items |-> answer], fails),
               topics |-> ExtractTopics(Txt(120, {}), [topics |-> answer], fails)]
    /\ UNCHANGED <<kq, env, store, now, last>>

\* Bodies around the limit of the direct request.
SummaryTexts ==
    {Txt(n, {}) : n \in {1, 120, DirectLimit - 1, DirectLimit, DirectLimit + 1, 3 * DirectLimit}}

\* Texts the model (the completion or the summarize chain) answers with.
SummaryAnswers ==
    { <<" ", "Budget review on Friday.", "\n">>,
      <<"Short.">>,
      <<"\n", "Two", " ", "sentences.", " ", "\t">>,
      <<" ">>,
      <<>> }

\* _generate_summary(subject, text), the model answering or failing.
Summarize(subject, text, answer, fails) ==
    /\ run' = [op |-> "summary", subject |-> subject, text |-> text, answer |-> answer,
               fails |-> fails,
               out |-> GenerateSummary(subject, text, [summary |-> answer], fails)]
    /\ UNCHANGED <<kq, env, store, now, last>>

\* The caller takes what the sub-analyzer returned.
ReturnPart ==
    /\ run # Idle
    /\ run' = Idle
    /\ UNCHANGED <<kq, env, store, now, last>>

NextParts ==
    \/ run = Idle /\ \E text \in SentimentTexts, label \in RawLabels, score \in RawScores,
                        fails \in {{}, {"sentiment"}} :
                        ClassifySentiment(text, label, score, fails)
    \/ run = Idle /\ \E subject \in ScoredSubjects, text \in ScoredBodies,
                        entities \in EntityLists :
                        ScoreImportance(subject, text, entities)
    \/ run = Idle /\ \E answer \in CategoryAnswers, fails \in {{}, {"categories"}} :
                        Categorize(answer, fails)
    \/ run = Idle /\ \E answer \in LineAnswers, fails \in {{}, {"action_items", "topics"}} :
                        ExtractLists(answer, fails)
    \/ run = Idle /\ \E subject \in {Txt(5, {}), EmptyStr}, text \in SummaryTexts,
                        answer \in SummaryAnswers, fails \in {{}, {"summary"}} :
                        Summarize(subject, text, answer, fails)
    \/ ReturnPart

SpecParts == Init /\ [][NextParts]_vars

\* The raw label is the named one, in whatever case the classifier writes it.
RawIs(name) ==
    run.raw.label \in
        (CASE name = "positive" -> {"positive", "POSITIVE", "Positive"}
           [] name = "negative" -> {"negative", "NEGATIVE", "Negative"}
           [] name = "neutral" -> {"neutral", "NEUTRAL", "Neutral"})

\* C12: _analyze_sentiment returns the score of the classifier unchanged,
\* and the label positive for raw positive, negative for raw negative,
\* positive for raw neutral above 0.7, negative for raw neutral below 0.3,
\* neutral otherwise (neutral at exactly 0.7 or 0.3, unrecognised labels).
C12_SentimentNormalization ==
    run.op = "sentiment" /\ run.fails = {} =>
        /\ ~run.out.raised
        /\ run.out.val.score = run.raw.score
        /\ run.out.val.label =
               (IF RawIs("positive") THEN "positive"
                ELSE IF RawIs("negative") THEN "negative"
                ELSE IF RawIs("neutral") /\ run.raw.score > 70 THEN "positive"
                ELSE IF RawIs("neutral") /\ run.raw.score < 30 THEN "negative"
                ELSE "neutral")
        /\ run.raw = [label |-> "neutral", score |-> 80] =>
               run.out.val = [label |-> "positive", score |-> 80]
        /\ run.raw = [label |-> "neutral", score |-> 20] =>
               run.out.val = [label |-> "negative", score |-> 20]
        /\ run.raw = [label |-> "neutral", score |-> 50] =>
               run.out.val = [label |-> "neutral", score |-> 50]
        /\ run.raw = [label |-> "positive", score |-> 99] =>
               run.out.val = [label |-> "positive", score |-> 99]

\* Raw neutral with the score exactly 0.7 stayed neutral.
C12_Witness ==
    /\ run.op = "sentiment" /\ run.fails = {}
    /\ run.raw = [label |-> "neutral", score |-> 70]
    /\ run.out.val = [label |-> "neutral", score |-> 70]

\* The subject and the body scored are strings and every entity has a label.
WellFormedScoring ==
    /\ run.subject.kind = "str"
    /\ run.text.kind = "str"
    /\ \A i \in 1..Len(run.entities) : "label" \in DOMAIN run.entities[i]

\* The four contributions of the scoring rule, in hundredths.
SubjectContribution ==
    IF \E o \in run.subject.occ : o.cls = "urgent" THEN 40 ELSE 0
BodyUrgentContribution ==
    IF \E o \in run.text.occ : o.cls = "urgent" /\ o.end <= 500 THEN 20 ELSE 0
BodyActionContribution ==
    IF \E o \in run.text.occ : o.cls = "action" /\ o.end <= 1000 THEN 20 ELSE 0
EntityContribution ==
    LET n == Cardinality({i \in 1..Len(run.entities) :
                            run.entities[i].label \in {"PERSON", "ORG"}})
    IN  IF 5 * n > 20 THEN 20 ELSE 5 * n

C14_ImportanceBounded ==
    run.op = "importance" =>
        /\ ~run.out.raised
        /\ run.out.val >= 0 /\ run.out.val <= 100
        /\ ~WellFormedScoring => run.out.val = 50
        /\ WellFormedScoring =>
               LET sum == SubjectContribution + BodyUrgentContribution
                          + BodyActionContribution + EntityContribution
               IN  run.out.val = (IF sum < 0 THEN 0 ELSE IF sum > 100 THEN 100 ELSE sum)

\* A subject that is None and an entity without a label gave 0.5.
C14_Witness ==
    /\ run.op = "importance"
    /\ run.subject.kind = "none"
    /\ \E i \in 1..Len(run.entities) : "label" \notin DOMAIN run.entities[i]
    /\ run.out.val = 50

\* C15: every category _categorize_email returns is one of the 13 labels of
\* the taxonomy, or the list is ["Uncategorized"] after a failure, or the
\* list is empty.
C15_CategoriesInTaxonomy ==
    run.op = "categorize" =>
        \/ \A i \in 1..Len(run.out.val) :
               run.out.val[i] \in
                   { <<"Urgent">>, <<"Action Required">>, <<"Meeting">>, <<"Information">>,
                     <<"Project Update">>, <<"External Client">>, <<"Internal Team">>,
                     <<"Personal">>, <<"Marketing">>, <<"Sales">>, <<"HR">>, <<"Finance">>,
                     <<"Technical">> }
        \/ run.fails # {} /\ run.out.val = << <<"Uncategorized">> >>
        \/ run.out.val = <<>>

\* The lines of the answer that has been parsed, each trimmed.
TrimmedLines ==
    LET lines == Split(run.answer, "\n")
    IN  [i \in 1..Len(lines) |-> Strip(lines[i])]

\* A line is accepted: non-empty, starting with "-" or "*" or with a digit
\* among its first two characters.
AcceptedLine(l) ==
    /\ Len(l) > 0
    /\ \/ l[1] \in {"-", "*"}
       \/ \E i \in {1, 2} : i <= Len(l) /\ l[i] \in Digits \cup {"U+2460"}

\* The line without its longest prefix made of the characters of drop.
WithoutLeading(l, drop) ==
    LET k == CHOOSE n \in 0..Len(l) :
                 /\ \A i \in 1..n : l[i] \in drop
                 /\ n < Len(l) => l[n + 1] \notin drop
    IN  SubSeq(l, k + 1, Len(l))

NothingLeft(l) == l = <<>>
SomethingLeft(l) == l # <<>>

\* C16 as stated: both extractors return, in order, the accepted lines
\* without their leading bullet, digit, period and space characters.
C16_Original ==
    run.op = "lines" /\ run.fails = {} =>
        LET accepted == SelectSeq(TrimmedLines, AcceptedLine)
            expected == [i \in 1..Len(accepted) |->
                           WithoutLeading(accepted[i],
                                          {"-", "*", ".", " "} \cup Digits \cup {"U+2460"})]
        IN  /\ ~run.items.raised /\ ~run.topics.raised
            /\ run.items.val = expected
            /\ run.topics.val = expected

\* C16 as amended: both extractors return, in order, the accepted lines
\* without their leading "-", "*", ASCII digit, period and space
\* characters, leaving out the lines of which nothing remains; the example
\* yields ["Send the report", "Call client"].
C16_LineParsing ==
    run.op = "lines" /\ run.fails = {} =>
        LET accepted == SelectSeq(TrimmedLines, AcceptedLine)
            cleaned == [i \in 1..Len(accepted) |->
                          WithoutLeading(accepted[i], {"-", "*", ".", " "} \cup Digits)]
            expected == SelectSeq(cleaned, SomethingLeft)
        IN  /\ ~run.items.raised /\ ~run.topics.raised
            /\ run.items.val = expected
            /\ run.topics.val = run.items.val
            /\ run.answer = <<"-", " ", "Send the report", "\n", "2", ".", " ", "Call client",
                              "\n", "Not a bullet">>
               => run.items.val = << <<"Send the report">>, <<"Call client">> >>

\* An answer with an accepted line of which nothing remains and a line that
\* gives an item.
C16_Witness ==
    /\ run.op = "lines" /\ run.fails = {}
    /\ \E i \in 1..Len(TrimmedLines) :
           /\ AcceptedLine(TrimmedLines[i])
           /\ NothingLeft(WithoutLeading(TrimmedLines[i], {"-", "*", ".", " "} \cup Digits))
    /\ run.items.val = << <<"a">> >>
    /\ run.topics.val = << <<"a">> >>

\* out is answer without the white space at its two ends.
TrimmedOf(out, answer) ==
    /\ out # <<>> => out[1] \notin {" ", "\n", "\t"} /\ out[Len(out)] \notin {" ", "\n", "\t"}
    /\ \E i \in 0..Len(answer) :
           /\ i + Len(out) <= Len(answer)
           /\ out = SubSeq(answer, i + 1, i + Len(out))
           /\ \A k \in (1..i) \cup ((i + Len(out) + 1)..Len(answer)) :
                  answer[k] \in {" ", "\n", "\t"}

\* C17: a body of fewer than 4000 characters is summarized by exactly one
\* completion request, without chunking, and the trimmed answer is
\* returned; a body of 4000 characters or more is split into chunks and
\* summarized by the map-reduce chain, without the direct request; a
\* failure in either mode gives "Could not generate summary." and no
\* exception.
C17_TwoModeSummary ==
    run.op = "summary" =>
        /\ ~run.out.raised
        /\ run.text.len < 4000 =>
               /\ run.out.calls = <<"chat.completions.create:summary">>
               /\ run.fails = {} => TrimmedOf(run.out.val, run.answer)
        /\ run.text.len >= 4000 =>
               /\ \A i \in 1..Len(run.out.calls) :
                      run.out.calls[i] # "chat.completions.create:summary"
               /\ run.out.calls = <<"text_splitter.split_text", "summarize_chain.run">>
        /\ run.fails # {} => run.out.val = <<"Could not generate summary.">>

\* A body of exactly 4000 characters went to the summarize chain.
C17_Witness ==
    /\ run.op = "summary" /\ run.fails = {}
    /\ run.text.len = 4000
    /\ run.out.calls = <<"text_splitter.split_text", "summarize_chain.run">>
    /\ run.out.val = <<"Budget review on Friday.">>

(***************************************************************************)
(* The cache layer (caching.py).                                           *)
(*                                                                         *)
(* The store is the set of entries of the Redis database:                  *)
(*   key   the key name, as GenerateCacheKey builds it                     *)
(*   val   the string stored                                               *)
(*   at    the server time of the write                                    *)
(*   ttl   the time to live given to SETEX, 0 for a key written without    *)
(*   orig  the Python value whose serialization val is (not in Redis: kept *)
(*         to state what a later hit is compared with)                     *)
(* An entry whose time to live has elapsed stays in the set until it is    *)
(* overwritten or deleted, as in Redis, and no command sees it.            *)
(***************************************************************************)
\* Mutant of Live: the entry is still served at the instant its time to
\* live has elapsed.
LiveInclusive(e, t) == e.ttl = 0 \/ t - e.at <= e.ttl

Live(e, t) == e.ttl = 0 \/ t - e.at < e.ttl

Visible(st, t) == {e \in st : Live(e, t)}

\* redis_client.get(key): the string stored, None when there is none.
RedisGet(st, t, key) ==
    IF \E e \in Visible(st, t) : e.key = key
    THEN (CHOOSE e \in Visible(st, t) : e.key = key).val
    ELSE [js |-> "nil"]

\* Mutant of RedisSetex: an entry still alive under the key is kept (SET NX).
RedisSetnx(st, t, key, ttl, val, orig) ==
    IF \E e \in Visible(st, t) : e.key = key THEN st
    ELSE {e \in st : e.key # key}
         \cup {[key |-> key, val |-> val, at |-> t, ttl |-> ttl, orig |-> orig]}

\* redis_client.setex(key, ttl, val)
RedisSetex(st, t, key, ttl, val, orig) ==
    {e \in st : e.key # key}
    \cup {[key |-> key, val |-> val, at |-> t, ttl |-> ttl, orig |-> orig]}

\* os.getenv("ENABLE_EMAIL_CACHE", "True").lower() == "true"
EnvValues == {"unset", "TRUE", "false"}

LowerEnv(v) ==
    CASE v = "TRUE" -> "true"
      [] v = "True" -> "true"
      [] v = "False" -> "false"
      [] OTHER -> v

\* Mutant of IsCacheEnabled: only the values "0" and "off" switch the cache off.
EnabledUnlessZero(e) == e \notin {"0", "off"}

IsCacheEnabled(e) == LowerEnv(IF e = "unset" THEN "True" ELSE e) = "true"

(***************************************************************************)
(* Values a cached function returns, and their JSON text.                  *)
(*   [t |-> "dict", d]        a dict of str, number and list values        *)
(*   [t |-> "tuple", items]   a tuple                                      *)
(*   [t |-> "list", items]    a list                                       *)
(*   [t |-> "object", cls]    an instance json.dumps cannot encode         *)
(*   [t |-> "none"]           None                                         *)
(***************************************************************************)
PyNone == [t |-> "none"]

JsonSerializable(obj) == obj.t # "object"

\* json.dumps(obj): a tuple is written as an array, like a list.
JsonDumps(obj) ==
    CASE obj.t = "dict" -> [js |-> "object", d |-> obj.d]
      [] obj.t = "tuple" -> [js |-> "array", items |-> obj.items]
      [] obj.t = "list" -> [js |-> "array", items |-> obj.items]
      [] obj.t = "none" -> [js |-> "null"]

\* Mutant of SerializeForCache: json.dumps(obj, default=str) writes what it
\* cannot encode as a string.
SerializeWithDefault(obj) ==
    [raised |-> FALSE,
     val |-> IF obj.t = "object" THEN [js |-> "string", s |-> obj.cls] ELSE JsonDumps(obj)]

\* serialize_for_cache: [raised, val]; a TypeError becomes a ValueError.
SerializeForCache(obj) ==
    IF JsonSerializable(obj) THEN [raised |-> FALSE, val |-> JsonDumps(obj)]
    ELSE [raised |-> TRUE, val |-> [js |-> "nil"]]

\* deserialize_from_cache: json.loads, None for text that is no JSON.
DeserializeFromCache(data) ==
    CASE data.js = "object" -> [t |-> "dict", d |-> data.d]
      [] data.js = "array" -> [t |-> "list", items |-> data.items]
      [] data.js = "null" -> PyNone
      [] OTHER -> PyNone

\* "if cached_value:" of what redis_client.get returned.
CachedTruthy(data) == data.js \notin {"nil", "empty"}

(***************************************************************************)
(* cache(ttl).decorator.wrapper.  func is what the wrapped function does   *)
(* if it is called: [raised, val]; fault is the store command that raises  *)
(* redis.RedisError during this call ("none", "get" or "setex").           *)
(* Gives the value returned, whether an exception reaches the caller, the  *)
(* number of times func was called, the store commands issued, and the     *)
(* store afterwards.                                                       *)
(***************************************************************************)
Outcome(ret, raised, invoked, cmds, st) ==
    [ret |-> ret, raised |-> raised, invoked |-> invoked, cmds |-> cmds, store |-> st]

\* return func(*args, **kwargs), an exception of func reaching the caller
Direct(func, cmds, st) ==
    Outcome(IF func.raised THEN PyNone ELSE func.val, func.raised, 1, cmds, st)

\* Mutant of OnGetError: the RedisError of the lookup is not caught.
OnGetErrorUncaught(func, st) == Outcome(PyNone, TRUE, 0, <<"get">>, st)

\* except redis.RedisError around the lookup: compute directly.
OnGetError(func, st) == Direct(func, <<"get">>, st)

\* Mutant of OnHit: reading an entry extends its time to live.
OnHitRefresh(cached_value, st) ==
    Outcome(DeserializeFromCache(cached_value), FALSE, 0, <<"get">>,
            {IF e.val = cached_value THEN [e EXCEPT !.ttl = @ + 3600] ELSE e : e \in st})

\* The hit: the cached string deserialized, func not called.
OnHit(cached_value, st) ==
    Outcome(DeserializeFromCache(cached_value), FALSE, 0, <<"get">>, st)

\* Mutant of OnCacheFailure: the result is computed again after the failure
\* to cache it.
OnCacheFailureRecompute(func, cmds, st) == Outcome(func.val, FALSE, 2, cmds, st)

\* except (ValueError, redis.RedisError) around serialize and setex: the
\* result is returned, nothing is stored.
OnCacheFailure(func, cmds, st) == Outcome(func.val, FALSE, 1, cmds, st)

Wrapper(enabled, func_name, args, kwargs, ttl, func, fault, st, t) ==
    LET cache_key == GenerateCacheKey(func_name, args, kwargs)
        cached_value == RedisGet(st, t, cache_key)
        serialized == SerializeForCache(func.val)
    IN  IF ~enabled THEN Direct(func, <<>>, st)
        ELSE IF fault = "get" THEN OnGetError(func, st)
        ELSE IF CachedTruthy(cached_value) THEN OnHit(cached_value, st)
        ELSE IF func.raised THEN Direct(func, <<"get">>, st)
        ELSE IF serialized.raised THEN OnCacheFailure(func, <<"get">>, st)
        ELSE IF fault = "setex" THEN OnCacheFailure(func, <<"get", "setex">>, st)
        ELSE Outcome(func.val, FALSE, 1, <<"get", "setex">>,
                     RedisSetex(st, t, cache_key, ttl, serialized.val, func.val))

(***************************************************************************)
(* invalidate_cache.  KEYS takes a glob-style pattern: "*" matches any run *)
(* of characters and "?" any one character.  The characters of an MD5      *)
(* digest are not known; a digest is DigestLen symbols "#", which "?" and  *)
(* "*" match and no letter of a pattern does.                              *)
(***************************************************************************)
DigestLen == 32

\* The characters of a key name after the namespace prefix.
NameTail(key) ==
    key.lit \o (IF key.md5 = <<>> THEN <<>> ELSE [i \in 1..DigestLen |-> "#"])

RECURSIVE GlobMatch(_, _)
GlobMatch(p, s) ==
    IF p = <<>> THEN s = <<>>
    ELSE IF Head(p) = "*"
         THEN GlobMatch(Tail(p), s) \/ (s # <<>> /\ GlobMatch(p, Tail(s)))
    ELSE IF s = <<>> THEN FALSE
    ELSE (Head(p) = "?" \/ Head(p) = Head(s)) /\ GlobMatch(Tail(p), Tail(s))

\* Mutant of RedisKeys: the namespace prefix is left out of the pattern.
RedisKeysAnyNamespace(st, t, pattern) ==
    {e.key : e \in {x \in Visible(st, t) : GlobMatch(pattern \o <<"*">>, NameTail(x.key))}}

\* redis_client.keys(f"intellimail:cache:{pattern}*")
RedisKeys(st, t, pattern) ==
    {e.key : e \in {x \in Visible(st, t) :
                      x.key.pre = CachePrefix /\ GlobMatch(pattern \o <<"*">>, NameTail(x.key))}}

\* Mutant of InvalidateCacheOp: the redis.RedisError of KEYS or DELETE is
\* not caught.
InvalidateUncaught(pattern, fault, st, t) ==
    LET keys == RedisKeys(st, t, pattern)
        removed == {e \in st : e.key \notin keys}
    IN  IF fault = "keys" THEN [ret |-> 0, raised |-> TRUE, cmds |-> <<"keys">>, store |-> st]
        ELSE IF keys = {} THEN [ret |-> 0, raised |-> FALSE, cmds |-> <<"keys">>, store |-> st]
        ELSE IF fault \in {"delete", "delete_late"}
             THEN [ret |-> 0, raised |-> TRUE, cmds |-> <<"keys", "delete">>,
                   store |-> IF fault = "delete_late" THEN removed ELSE st]
        ELSE [ret |-> Cardinality(keys), raised |-> FALSE, cmds |-> <<"keys", "delete">>,
              store |-> removed]

\* fault is the store command that raises redis.RedisError: "none", "keys",
\* "delete" (the DELETE never reached the server) or "delete_late" (the
\* server carried the DELETE out and the connection failed before the reply).
InvalidateCacheOp(pattern, fault, st, t) ==
    LET keys == RedisKeys(st, t, pattern)
        removed == {e \in st : e.key \notin keys}
    IN  IF fault = "keys" THEN [ret |-> 0, raised |-> FALSE, cmds |-> <<"keys">>, store |-> st]
        ELSE IF keys = {} THEN [ret |-> 0, raised |-> FALSE, cmds |-> <<"keys">>, store |-> st]
        ELSE IF fault \in {"delete", "delete_late"}
             THEN [ret |-> 0, raised |-> FALSE, cmds |-> <<"keys", "delete">>,
                   store |-> IF fault = "delete_late" THEN removed ELSE st]
        ELSE [ret |-> Cardinality(keys), raised |-> FALSE, cmds |-> <<"keys", "delete">>,
              store |-> removed]

(***************************************************************************)
(* Spec: requests against the cache.                                       *)
(***************************************************************************)
AnalysisTtl == 3600
DefaultTtl == 3600
TickStep == 1800
MaxTicks == 2
MaxPatLen == 1

\* Memory addresses a new AiService instance can be given.
Addrs == {1, 2}

MailA == [id |-> "m1", subject |-> Txt(5, {}), body |-> Txt(120, {Occ("action", 13, TRUE)})]
CacheEmails == {MailA}

RespA == CHOOSE r \in Responses : r.sentiment.label = "POSITIVE"
CacheFails == {{}, Backends}

\* What expensive_function (the decorator's documented use) may return.
ExpensiveResults == {[t |-> "tuple", items |-> <<1, 2>>], [t |-> "object", cls |-> "Report"]}

CallFaults == {"none", "get", "setex"}
InvalidateFaults == {"none", "keys", "delete", "delete_late"}

\* Keys other clients of the database write: x:1, x:2 and y:1 under the
\* namespace prefix, and x:1 outside it.
ExtKeys ==
    { [pre |-> CachePrefix, lit |-> <<"x", ":", "1">>, md5 |-> <<>>],
      [pre |-> CachePrefix, lit |-> <<"x", ":", "2">>, md5 |-> <<>>],
      [pre |-> CachePrefix, lit |-> <<"y", ":", "1">>, md5 |-> <<>>],
      [pre |-> "", lit |-> <<"x", ":", "1">>, md5 |-> <<>>] }

PatternChars == {"x", "*", "?"}
Patterns == UNION { [1..n -> PatternChars] : n \in 0..MaxPatLen }

CallRecord(fn, args, func, fault, out, calls) ==
    [op |-> "call", fn |-> fn, args |-> args, func |-> func, env |-> env, fault |-> fault,
     key |-> GenerateCacheKey(fn, args, <<>>), before |-> store, at |-> now,
     out |-> [ret |-> out.ret, raised |-> out.raised, invoked |-> out.invoked,
              cmds |-> out.cmds],
     calls |-> calls]

\* What analyze_email_content does for each email and failure set of this
\* specification, the backends answering RespA.
AnalysisOf == [email \in CacheEmails, fails \in CacheFails |-> Analyze(email, RespA, fails)]

\* EmailDetailResource.get: a new AiService, then its analyze_email_content.
CachedAnalyze(addr, email, fails, fault) ==
    LET inner == AnalysisOf[email, fails]
        func == [raised |-> inner.raised,
                 val |-> IF inner.raised THEN NoneVal ELSE PyDict(inner.val)]
        args == <<PyObj(addr), PyDict(email)>>
        out == Wrapper(IsCacheEnabled(env), <<"analyze_email_content">>, args, <<>>,
                       AnalysisTtl, func, fault, store, now)
    IN  /\ store' = out.store
        /\ last' = CallRecord(<<"analyze_email_content">>, args, func, fault, out,
                              IF out.invoked = 0 THEN <<>> ELSE inner.calls)
        /\ UNCHANGED <<kq, run, env, now>>

\* A call of a function decorated with @cache().
CachedExpensive(result, fault) ==
    LET func == [raised |-> FALSE, val |-> result]
        args == <<PyInt(1), PyInt(2)>>
        out == Wrapper(IsCacheEnabled(env), <<"expensive_function">>, args, <<>>,
                       DefaultTtl, func, fault, store, now)
    IN  /\ store' = out.store
        /\ last' = CallRecord(<<"expensive_function">>, args, func, fault, out,
                              IF out.invoked = 0 THEN <<>> ELSE <<"expensive_function">>)
        /\ UNCHANGED <<kq, run, env, now>>

InvalidateCache(pattern, fault) ==
    LET out == InvalidateCacheOp(pattern, fault, store, now)
    IN  /\ store' = out.store
        /\ last' = [op |-> "invalidate", pattern |-> pattern, fault |-> fault,
                    before |-> store, at |-> now,
                    out |-> [ret |-> out.ret, raised |-> out.raised, cmds |-> out.cmds]]
        /\ UNCHANGED <<kq, run, env, now>>

\* Time passes on the server.
Tick ==
    /\ now + TickStep <= MaxTicks * TickStep
    /\ now' = now + TickStep
    /\ last' = Idle
    /\ UNCHANGED <<kq, run, env, store>>

\* The operator sets or unsets ENABLE_EMAIL_CACHE.
SetEnv(v) ==
    /\ v # env
    /\ env' = v
    /\ last' = Idle
    /\ UNCHANGED <<kq, run, store, now>>

\* Another client writes its keys, without a time to live.
SeedStore ==
    /\ store' = {e \in store : e.key \notin ExtKeys}
                \cup {[key |-> k, val |-> [js |-> "text"], at |-> 0, ttl |-> 0,
                       orig |-> PyNone] : k \in ExtKeys}
    /\ store' # store
    /\ last' = Idle
    /\ UNCHANGED <<kq, run, env, now>>

\* Spec: calls of the two cached functions while time passes and the
\* switch is set and unset.
Next ==
    \/ \E addr \in Addrs, email \in CacheEmails, fails \in CacheFails, fault \in CallFaults :
           CachedAnalyze(addr, email, fails, fault)
    \/ \E result \in ExpensiveResults, fault \in CallFaults : CachedExpensive(result, fault)
    \/ Tick
    \/ \E v \in EnvValues : SetEnv(v)

Spec == Init /\ [][Next]_vars

\* SpecInvalidate: invalidate_cache against a store holding entries of the
\* decorator and keys of other clients.
NextInvalidate ==
    \/ \E addr \in Addrs, email \in CacheEmails : CachedAnalyze(addr, email, {}, "none")
    \/ \E pattern \in Patterns, fault \in InvalidateFaults : InvalidateCache(pattern, fault)
    \/ Tick
    \/ SeedStore

SpecInvalidate == Init /\ [][NextInvalidate]_vars

(***************************************************************************)
(* SpecRace: threads inside the wrapper at the same time, on one AiService *)
(* and one email, hence one key.  Each store command is one step; the      *)
(* wrapper holds no lock between them.  run maps each thread that has      *)
(* entered to its position and locals; last is the log of the SETEX        *)
(* commands the server has completed, in order.                            *)
(***************************************************************************)
Threads == {"t1", "t2", "t3"}

RaceArgs == <<PyObj(1), PyDict(MailA)>>
RaceKey == GenerateCacheKey(<<"analyze_email_content">>, RaceArgs, <<>>)

\* What analyze_email_content may compute for the email: the analysis with
\* every backend answering, or the one with every backend failing.
RaceResults == {PyDict(AnalysisOf[MailA, fails].val) : fails \in CacheFails}

ThreadOf(c) == IF c \in DOMAIN run THEN run[c] ELSE [pc |-> "ready"]

SetThread(c, rec) == [x \in (DOMAIN run) \cup {c} |-> IF x = c THEN rec ELSE run[x]]

StoreLog == IF last.op = "stores" THEN last.log ELSE <<>>

\* wrapper: is_cache_enabled() holds, the key is generated.
Enter(c) ==
    /\ ThreadOf(c).pc = "ready"
    /\ IsCacheEnabled(env)
    /\ run' = SetThread(c, [pc |-> "get", key |-> RaceKey])
    /\ UNCHANGED <<kq, env, store, now, last>>

\* cached_value = redis_client.get(cache_key); a hit returns at once.
Lookup(c) ==
    /\ ThreadOf(c).pc = "get"
    /\ LET cached_value == RedisGet(store, now, run[c].key)
       IN  run' = SetThread(c,
                     IF CachedTruthy(cached_value)
                     THEN [pc |-> "done", key |-> run[c].key, hit |-> TRUE, raised |-> FALSE,
                           ret |-> DeserializeFromCache(cached_value)]
                     ELSE [pc |-> "compute", key |-> run[c].key])
    /\ UNCHANGED <<kq, env, store, now, last>>

\* result = func(*args, **kwargs)
Compute(c, result) ==
    /\ ThreadOf(c).pc = "compute"
    /\ run' = SetThread(c, [pc |-> "setex", key |-> run[c].key, result |-> result])
    /\ UNCHANGED <<kq, env, store, now, last>>

\* serialized = serialize_for_cache(result); redis_client.setex(...)
Store(c) ==
    /\ ThreadOf(c).pc = "setex"
    /\ LET serialized == SerializeForCache(run[c].result)
       IN  /\ ~serialized.raised
           /\ store' = RedisSetex(store, now, run[c].key, AnalysisTtl, serialized.val,
                                  run[c].result)
           /\ last' = [op |-> "stores",
                       log |-> Append(StoreLog, [by |-> c, val |-> serialized.val,
                                                 orig |-> run[c].result])]
    /\ run' = SetThread(c, [run[c] EXCEPT !.pc = "return"])
    /\ UNCHANGED <<kq, env, now>>

\* return result
Return(c) ==
    /\ ThreadOf(c).pc = "return"
    /\ run' = SetThread(c, [pc |-> "done", key |-> run[c].key, hit |-> FALSE,
                            raised |-> FALSE, result |-> run[c].result,
                            ret |-> run[c].result])
    /\ UNCHANGED <<kq, env, store, now, last>>

NextRace ==
    \/ \E c \in Threads : Enter(c)
    \/ \E c \in Threads : Lookup(c)
    \/ \E c \in Threads, result \in RaceResults : Compute(c, result)
    \/ \E c \in Threads : Store(c)
    \/ \E c \in Threads : Return(c)

SpecRace == Init /\ [][NextRace]_vars

(***************************************************************************)
(* SpecStale: invalidate_cache running while calls of the cached           *)
(* analyze_email_content are in flight.  The steps of the wrapper are      *)
(* those of SpecRace; kq holds the position of the invalidation: the keys  *)
(* its KEYS command listed, and (as history) the calls that had read a     *)
(* miss and not yet written when it started.                               *)
(***************************************************************************)
\* The calls between their lookup, which missed, and their SETEX.
MissRead == {c \in Threads : ThreadOf(c).pc \in {"compute", "setex"}}

\* keys = redis_client.keys(f"intellimail:cache:{pattern}*"); with no key
\* listed invalidate_cache returns 0 at once.
ListKeys(pattern) ==
    /\ kq = Idle
    /\ LET keys == RedisKeys(store, now, pattern)
       IN  kq' = [op |-> "invalidate", pc |-> IF keys = {} THEN "returned" ELSE "delete",
                  pattern |-> pattern, keys |-> keys, pending |-> MissRead,
                  count |-> 0]
    /\ UNCHANGED <<run, env, store, now, last>>

\* count = redis_client.delete(*keys); return count
DeleteListed ==
    /\ kq # Idle /\ kq.pc = "delete"
    /\ store' = {e \in store : e.key \notin kq.keys}
    /\ kq' = [kq EXCEPT !.pc = "returned",
                        !.count = Cardinality({e.key : e \in store} \cap kq.keys)]
    /\ UNCHANGED <<run, env, now, last>>

NextStale ==
    \/ \E c \in Threads : Enter(c)
    \/ \E c \in Threads : Lookup(c)
    \/ \E c \in Threads, result \in RaceResults : Compute(c, result)
    \/ \E c \in Threads : Store(c)
    \/ \E c \in Threads : Return(c)
    \/ \E pattern \in Patterns : ListKeys(pattern)
    \/ DeleteListed

SpecStale == Init /\ [][NextStale]_vars

(***************************************************************************)
(* SpecSession: the routes of app.py.  run maps each browser to the keys   *)
(* of its Flask session; kq keeps, as history, whether the last callback   *)
(* that stored credentials or the last logout came later for the browser;  *)
(* last is the request that has just been answered: the backend calls it   *)
(* made, in order, and its response.  Requests are handled one at a time.  *)
(***************************************************************************)
Browsers == {"b1", "b2"}

MaxMessages == 2

\* The messages of the inbox: with a text/plain body, or without.
Inboxes == UNION { [1..n -> {"body", "nobody"}] : n \in 0..MaxMessages }

\* The backend that raises during the request.
RouteFaults == {"none", "gmail", "openai"}

SessionOf(b) == IF b \in DOMAIN run THEN run[b] ELSE {}

SinceOf(b) == IF b \in DOMAIN kq THEN kq[b] ELSE "none"

SetFor(f, b, v) == [x \in (DOMAIN f) \cup {b} |-> IF x = b THEN v ELSE f[x]]

Redirect(to) == [status |-> "redirect", to |-> to]
Page(template) == [status |-> "page", to |-> template]
ServerError == [status |-> "error", to |-> "500"]

Answer(sess, resp, calls) == [session |-> sess, resp |-> resp, calls |-> calls]

\* render_template: a template that shows the flashed messages removes
\* them from the session.
Rendered(sess, shown) == IF shown THEN sess \ {"_flashes"} ELSE sess

\* flash(...)
Flashed(sess) == sess \cup {"_flashes"}

\* index
IndexOp(sess, shown) ==
    IF "credentials" \in sess THEN Answer(sess, Redirect("list_emails"), <<>>)
    ELSE Answer(Rendered(sess, shown), Page("index.html"), <<>>)

\* login: the authorization URL is built locally.
LoginOp(sess) == Answer(sess \cup {"state"}, Redirect("authorization_url"), <<>>)

\* callback: flow.fetch_token exchanges the code at the token endpoint; a
\* refused exchange raises and the request fails.
CallbackOp(sess, granted) ==
    IF granted
    THEN Answer(sess \cup {"credentials"}, Redirect("list_emails"), <<"oauth.fetch_token">>)
    ELSE Answer(sess, ServerError, <<"oauth.fetch_token">>)

\* Mutant of LogoutOp: only the OAuth state is dropped.
LogoutKeepsCredentials(sess) == Answer(sess \ {"state"}, Redirect("index"), <<>>)

\* logout: session.clear()
LogoutOp(sess) == Answer({}, Redirect("index"), <<>>)

\* The body of the loop over the messages, and the analysis of view_email:
\* the calls made and whether an exception ended them.
RECURSIVE Process(_, _)
Process(messages, fault) ==
    IF messages = <<>> THEN [calls |-> <<>>, raised |-> FALSE]
    ELSE IF Head(messages) = "nobody"
         THEN LET rest == Process(Tail(messages), fault)
              IN  [calls |-> <<"gmail.messages.get">> \o rest.calls, raised |-> rest.raised]
    ELSE IF fault = "openai"
         THEN [calls |-> <<"gmail.messages.get", "openai.summarize_email">>, raised |-> TRUE]
    ELSE LET rest == Process(Tail(messages), fault)
         IN  [calls |-> <<"gmail.messages.get", "openai.summarize_email",
                          "openai.analyze_sentiment">> \o rest.calls,
              raised |-> rest.raised]

\* list_emails
ListEmailsOp(sess, inbox, fault, shown) ==
    IF "credentials" \notin sess THEN Answer(sess, Redirect("login"), <<>>)
    ELSE IF fault = "gmail"
         THEN Answer(Flashed(sess), Redirect("index"), <<"gmail.getProfile">>)
    ELSE LET loop == Process(inbox, fault)
             calls == <<"gmail.getProfile", "gmail.messages.list">> \o loop.calls
         IN  IF loop.raised
             THEN Answer(Flashed(sess \cup {"email"}), Redirect("index"), calls)
             ELSE Answer(Rendered(sess \cup {"email"}, shown), Page("emails.html"), calls)

\* view_email
ViewEmailOp(sess, message, fault, shown) ==
    IF "credentials" \notin sess THEN Answer(sess, Redirect("login"), <<>>)
    ELSE IF fault = "gmail"
         THEN Answer(Flashed(sess), Redirect("list_emails"), <<"gmail.messages.get">>)
    ELSE LET one == Process(<<message>>, fault)
         IN  IF one.raised THEN Answer(Flashed(sess), Redirect("list_emails"), one.calls)
             ELSE Answer(Rendered(sess, shown), Page("view_email.html"), one.calls)

\* A request of browser b answered with ans.
Request(b, route, ans, since) ==
    /\ run' = SetFor(run, b, ans.session)
    /\ kq' = SetFor(kq, b, since)
    /\ last' = [op |-> "request", route |-> route, browser |-> b, before |-> SessionOf(b),
                since |-> SinceOf(b), calls |-> ans.calls, resp |-> ans.resp]
    /\ UNCHANGED <<env, store, now>>

index(b, shown) == Request(b, "index", IndexOp(SessionOf(b), shown), SinceOf(b))

login(b) == Request(b, "login", LoginOp(SessionOf(b)), SinceOf(b))

callback(b, granted) ==
    Request(b, "callback", CallbackOp(SessionOf(b), granted),
            IF granted THEN "callback" ELSE SinceOf(b))

logout(b) == Request(b, "logout", LogoutOp(SessionOf(b)), "logout")

list_emails(b, inbox, fault, shown) ==
    Request(b, "list_emails", ListEmailsOp(SessionOf(b), inbox, fault, shown), SinceOf(b))

view_email(b, message, fault, shown) ==
    Request(b, "view_email", ViewEmailOp(SessionOf(b), message, fault, shown), SinceOf(b))

NextSession ==
    \/ \E b \in Browsers, shown \in BOOLEAN : index(b, shown)
    \/ \E b \in Browsers : login(b)
    \/ \E b \in Browsers, granted \in BOOLEAN : callback(b, granted)
    \/ \E b \in Browsers : logout(b)
    \/ \E b \in Browsers, inbox \in Inboxes, fault \in RouteFaults, shown \in BOOLEAN :
           list_emails(b, inbox, fault, shown)
    \/ \E b \in Browsers, message \in {"body", "nobody"}, fault \in RouteFaults,
          shown \in BOOLEAN : view_email(b, message, fault, shown)

SpecSession == Init /\ [][NextSession]_vars

(***************************************************************************)
(* SpecDegraded: analyze_email_content against a store that may fail and   *)
(* that other clients of the database may write to.                        *)
(***************************************************************************)
\* Another client (or a write cut short) leaves under the key of an
\* analysis a text that is no JSON.
CorruptEntry(addr, email) ==
    LET key == GenerateCacheKey(<<"analyze_email_content">>,
                                <<PyObj(addr), PyDict(email)>>, <<>>)
    IN  /\ store' = RedisSetex(store, now, key, 0, [js |-> "text"], PyNone)
        /\ store' # store
        /\ last' = Idle
        /\ UNCHANGED <<kq, run, env, now>>

NextDegraded ==
    \/ \E addr \in Addrs, email \in CacheEmails, fails \in CacheFails, fault \in CallFaults :
           CachedAnalyze(addr, email, fails, fault)
    \/ \E addr \in Addrs, email \in CacheEmails : CorruptEntry(addr, email)
    \/ Tick

SpecDegraded == Init /\ [][NextDegraded]_vars

(***************************************************************************)
(* SpecStats: get_cache_stats against a store holding entries of the       *)
(* decorator and keys of other clients.                                    *)
(***************************************************************************)
\* Replies of the server to INFO: the sections of a Redis server, and a
\* reply without the fields read.
InfoReplies ==
    { [used_memory_human |-> "1.00M", keyspace_hits |-> 3, keyspace_misses |-> 1,
       uptime_in_seconds |-> 100],
      [redis_version |-> "7"] }

StatsFaults == {"none", "info", "keys"}

\* info.get(field, default)
InfoGet(info, field, default) == IF field \in DOMAIN info THEN info[field] ELSE default

\* The reply of the except clause.
Unavailable == [error |-> "RedisError", status |-> "unavailable"]

\* Mutant of GetCacheStatsOp: every key of the database is counted (DBSIZE).
StatsCountAll(info, fault, st, t) ==
    IF fault = "info" THEN [ret |-> Unavailable, raised |-> FALSE, cmds |-> <<"info">>]
    ELSE IF fault = "keys"
         THEN [ret |-> Unavailable, raised |-> FALSE, cmds |-> <<"info", "keys">>]
    ELSE [ret |-> [total_keys |-> Cardinality(Visible(st, t)),
                   memory_used |-> InfoGet(info, "used_memory_human", "unknown"),
                   hits |-> InfoGet(info, "keyspace_hits", 0),
                   misses |-> InfoGet(info, "keyspace_misses", 0),
                   uptime |-> InfoGet(info, "uptime_in_seconds", 0)],
          raised |-> FALSE, cmds |-> <<"info", "keys">>]

\* get_cache_stats; fault is the command that raises redis.RedisError.
GetCacheStatsOp(info, fault, st, t) ==
    IF fault = "info" THEN [ret |-> Unavailable, raised |-> FALSE, cmds |-> <<"info">>]
    ELSE IF fault = "keys"
         THEN [ret |-> Unavailable, raised |-> FALSE, cmds |-> <<"info", "keys">>]
    ELSE [ret |-> [total_keys |-> Cardinality(RedisKeys(st, t, <<>>)),
                   memory_used |-> InfoGet(info, "used_memory_human", "unknown"),
                   hits |-> InfoGet(info, "keyspace_hits", 0),
                   misses |-> InfoGet(info, "keyspace_misses", 0),
                   uptime |-> InfoGet(info, "uptime_in_seconds", 0)],
          raised |-> FALSE, cmds |-> <<"info", "keys">>]

GetCacheStats(info, fault) ==
    LET out == GetCacheStatsOp(info, fault, store, now)
    IN  /\ last' = [op |-> "stats", info |-> info, fault |-> fault, before |-> store,
                    at |-> now, out |-> out]
        /\ UNCHANGED <<kq, run, env, store, now>>

NextStats ==
    \/ \E addr \in Addrs, email \in CacheEmails : CachedAnalyze(addr, email, {}, "none")
    \/ \E info \in InfoReplies, fault \in StatsFaults : GetCacheStats(info, fault)
    \/ Tick
    \/ SeedStore

SpecStats == Init /\ [][NextStats]_vars

(***************************************************************************)
(* Claims about the decorator (Spec) and invalidate_cache (SpecInvalidate).*)
(***************************************************************************)
\* The call that has just returned went through the decorator with the
\* cache switched on and no store command failing.
CallWithWorkingCache ==
    last.op = "call" /\ last.env \in {"unset", "TRUE"} /\ last.fault = "none"

\* The entries the store held under the key of the call when it started.
StoredUnderKey == {e \in last.before : e.key = last.key}

\* Equal up to what JSON keeps: a tuple comes back as a list.
JsonEquivalent(got, orig) ==
    \/ got = orig
    \/ orig.t = "tuple" /\ got = [t |-> "list", items |-> orig.items]

\* The entries written by earlier calls of analyze_email_content for the
\* email of this call, through any AiService instance.
StoredForSameEmail ==
    {e \in last.before :
        \E addr \in Addrs :
            e.key = GenerateCacheKey(<<"analyze_email_content">>,
                                     <<PyObj(addr), last.args[2]>>, <<>>)}

\* C3: the cached analyze_email_content is keyed on the email content: a
\* call made within the TTL of an entry stored for the same email, through
\* whatever AiService instance, has the key of that entry and returns the
\* stored result without running any sub-analyzer.
C3_KeyedOnEmailContent ==
    CallWithWorkingCache /\ last.fn = <<"analyze_email_content">> =>
        \A e \in StoredForSameEmail :
            last.at - e.at < 3600 =>
                /\ e.key = last.key
                /\ last.out.invoked = 0
                /\ last.calls = <<>>
                /\ JsonEquivalent(last.out.ret, e.orig)

\* C6: while an entry stored under the key is less than its TTL old, a call
\* returns a value equivalent to the result stored, without calling the
\* function and without writing; once the TTL has elapsed the call misses,
\* calls the function once and stores the new (serializable) result with
\* the full TTL.
C6_RoundTripUnderTtl ==
    CallWithWorkingCache =>
        \A e \in StoredUnderKey :
            /\ last.at - e.at < 3600 =>
                   /\ last.out.invoked = 0
                   /\ ~last.out.raised
                   /\ JsonEquivalent(last.out.ret, e.orig)
                   /\ store = last.before
            /\ last.at - e.at >= 3600 =>
                   /\ last.out.invoked = 1
                   /\ last.out.ret = last.func.val
                   /\ last.func.val.t # "object" =>
                          \E n \in store :
                              /\ n.key = last.key /\ n.at = last.at /\ n.ttl = 3600
                              /\ n.orig = last.func.val
                              /\ JsonEquivalent(DeserializeFromCache(n.val), last.func.val)
                              /\ \A m \in store : m.key = last.key => m = n

\* A call found the tuple stored one tick earlier and returned it as a list.
C6_Witness ==
    /\ CallWithWorkingCache
    /\ last.out.invoked = 0
    /\ last.out.ret.t = "list"
    /\ \E e \in StoredUnderKey : e.orig.t = "tuple" /\ last.at - e.at = TickStep

\* C7: with ENABLE_EMAIL_CACHE off at the time of the call, the wrapper
\* issues no store command, calls the function exactly once, returns its
\* result and leaves the store as it was.
C7_DisabledBypasses ==
    last.op = "call" /\ last.env = "false" =>
        /\ last.out.cmds = <<>>
        /\ last.out.invoked = 1
        /\ last.out.ret = last.func.val
        /\ ~last.out.raised
        /\ store = last.before

\* The switch was off while the store held a live entry under the key.
C7_Witness ==
    /\ last.op = "call" /\ last.env = "false"
    /\ \E e \in StoredUnderKey : last.at - e.at < e.ttl
    /\ last.out.invoked = 1

\* The store held no entry a lookup would have returned.
MissedLookup == \A e \in StoredUnderKey : last.at - e.at >= e.ttl

\* C8: a failing lookup makes the wrapper compute directly without any
\* write; a failing write after a miss still returns the computed result;
\* no exception of the store reaches the caller.
C8_StoreFailureContained ==
    last.op = "call" /\ last.env \in {"unset", "TRUE"} =>
        /\ last.fault = "get" =>
               /\ ~last.out.raised
               /\ last.out.cmds = <<"get">>
               /\ last.out.invoked = 1
               /\ last.out.ret = last.func.val
               /\ store = last.before
        /\ last.fault = "setex" /\ MissedLookup =>
               /\ ~last.out.raised
               /\ last.out.invoked = 1
               /\ last.out.ret = last.func.val

\* The lookup failed while the store held a live entry under the key.
C8_Witness ==
    /\ last.op = "call" /\ last.env = "unset" /\ last.fault = "get"
    /\ \E e \in StoredUnderKey : last.at - e.at < e.ttl
    /\ last.out.invoked = 1

\* C9: on a miss whose result cannot be serialized the wrapper returns the
\* computed value unchanged, raises nothing, issues no write and leaves no
\* entry a lookup of the key would return.
C9_UnserializableReturned ==
    /\ last.op = "call" /\ last.env \in {"unset", "TRUE"} /\ last.fault # "get"
    /\ MissedLookup /\ last.func.val.t = "object"
    => /\ last.out.ret = last.func.val
       /\ ~last.out.raised
       /\ last.out.cmds = <<"get">>
       /\ \A e \in store : e.key = last.key => now - e.at >= e.ttl

\* An unserializable result was computed on a miss.
C9_Witness ==
    /\ last.op = "call" /\ last.env = "unset" /\ last.fault = "none"
    /\ last.func.val.t = "object"
    /\ last.out.invoked = 1
    /\ last.out.ret.t = "object"

\* The keys of the store as a lookup sees them at time t.
SeenKeys(st, t) == {e \in st : e.ttl = 0 \/ t - e.at < e.ttl}

\* The entries whose name begins with "intellimail:cache:" and the pattern.
BeginsWith(st, t, pattern) ==
    {e \in SeenKeys(st, t) :
        /\ e.key.pre = "intellimail:cache:"
        /\ Len(pattern) <= Len(NameTail(e.key))
        /\ \A i \in 1..Len(pattern) : NameTail(e.key)[i] = pattern[i]}

\* C10 as stated: for every pattern, invalidate_cache deletes exactly the
\* keys that begin with the namespace prefix followed by the pattern,
\* leaves the others intact and returns the number deleted.
C10_Original ==
    last.op = "invalidate" /\ last.fault = "none" =>
        /\ SeenKeys(store, now) =
               SeenKeys(last.before, last.at) \ BeginsWith(last.before, last.at, last.pattern)
        /\ last.out.ret = Cardinality(BeginsWith(last.before, last.at, last.pattern))

GlobChars == {"*", "?"}

\* C10 as amended: the same for every pattern without a glob character;
\* for every pattern, only keys under the namespace prefix are deleted,
\* every other entry is left as it was and the number deleted is returned.
C10_DeleteByPrefix ==
    last.op = "invalidate" /\ last.fault = "none" =>
        /\ (\A i \in 1..Len(last.pattern) : last.pattern[i] \notin GlobChars) =>
               SeenKeys(store, now) =
                   SeenKeys(last.before, last.at)
                   \ BeginsWith(last.before, last.at, last.pattern)
        /\ store \subseteq last.before
        /\ \A e \in last.before \ store : e.key.pre = "intellimail:cache:"
        /\ last.out.ret = Cardinality(last.before \ store)
        /\ ~last.out.raised

\* Pattern x against x:1, x:2, y:1 and a digest key: 2 deleted, y:1, the
\* digest key and the x:1 outside the namespace remain.
C10_Witness ==
    /\ last.op = "invalidate" /\ last.fault = "none" /\ last.pattern = <<"x">>
    /\ last.out.ret = 2
    /\ \E e \in store : e.key.pre = "intellimail:cache:" /\ e.key.lit = <<"y", ":", "1">>
    /\ \E e \in store : e.key.pre = "" /\ e.key.lit = <<"x", ":", "1">>
    /\ \E e \in store : e.key.md5 # <<>>

\* The entries the listing of invalidate_cache matches: those a command sees
\* whose name matches the glob "intellimail:cache:" + pattern + "*".
MatchedByListing ==
    {e \in SeenKeys(last.before, last.at) :
        /\ e.key.pre = "intellimail:cache:"
        /\ GlobMatch(last.pattern \o <<"*">>, NameTail(e.key))}

\* C11: invalidate_cache raises nothing; it returns 0 when no stored key
\* matches and when KEYS or DELETE fails; when nothing matched the store is
\* left as it was.
C11_ZeroOnNoMatchOrFailure ==
    last.op = "invalidate" =>
        /\ ~last.out.raised
        /\ last.fault \in {"keys", "delete", "delete_late"} => last.out.ret = 0
        /\ MatchedByListing = {} => last.out.ret = 0 /\ store = last.before

\* The DELETE failed after the listing had matched keys.
C11_Witness ==
    /\ last.op = "invalidate" /\ last.fault = "delete"
    /\ MatchedByListing # {}
    /\ last.out.cmds = <<"keys", "delete">>
    /\ last.out.ret = 0

\* The threads that have entered the wrapper, and those that have returned.
Entered == {c \in {"t1", "t2", "t3"} : c \in DOMAIN run}
Finished == {c \in Entered : run[c].pc = "done"}

\* The results computed so far by the threads that missed.
ComputedSoFar == {run[c].result : c \in {x \in Entered : "result" \in DOMAIN run[x]}}

\* C18: in every interleaving of callers on one key, each caller that has
\* returned got no exception and either its own computed result or a value
\* stored earlier under the key; the entry under the key is the value of
\* the last SETEX completed, whole, and it is the result of one of the
\* computations.
C18_LastWriteWins ==
    /\ \A c \in Finished :
           /\ ~run[c].raised
           /\ \/ ~run[c].hit /\ run[c].ret = run[c].result
              \/ /\ run[c].hit
                 /\ \E i \in 1..Len(StoreLog) : JsonEquivalent(run[c].ret, StoreLog[i].orig)
    /\ StoreLog = <<>> => store = {}
    /\ StoreLog # <<>> =>
           LET final == StoreLog[Len(StoreLog)]
           IN  /\ \E e \in store : e.key = RaceKey
               /\ \A e \in store :
                      /\ e.key = RaceKey
                      /\ e.val = final.val
                      /\ e.orig = final.orig
                      /\ e.orig \in ComputedSoFar
                      /\ DeserializeFromCache(e.val) = e.orig

\* Two threads missed, computed different results and stored both; the
\* entry is the second one's, and a third thread was served it.
C18_Witness ==
    /\ Len(StoreLog) = 2
    /\ StoreLog[1].orig # StoreLog[2].orig
    /\ \E e \in store : e.orig = StoreLog[2].orig
    /\ \E c \in Finished : ~run[c].hit /\ run[c].ret = StoreLog[1].orig
    /\ \E c \in Finished : run[c].hit /\ run[c].ret = StoreLog[2].orig

\* C19: no entry is changed after it was written: a hit writes nothing and
\* leaves value, time of writing and time to live of every entry as they
\* were; an entry appears or is replaced only when a call that missed
\* stores the whole result it has just computed, with the full TTL; no
\* other step touches the store.
C19_NoMutation ==
    [][ /\ (last'.op = "call" /\ last'.out.invoked = 0) => store' = store
        /\ \A e \in store' \ store :
               /\ last'.op = "call"
               /\ last'.out.invoked = 1
               /\ last'.out.cmds = <<"get", "setex">>
               /\ \A o \in store : o.key = e.key => now - o.at >= o.ttl
               /\ e.key = last'.key
               /\ e.at = now
               /\ e.ttl = 3600
               /\ e.orig = last'.func.val
               /\ JsonEquivalent(DeserializeFromCache(e.val), last'.func.val)
        /\ \A o \in store \ store' : \E e \in store' \ store : e.key = o.key
      ]_vars

\* A hit one tick after the analysis was stored left the entry with its
\* time of writing.
C19_Witness ==
    /\ last.op = "call" /\ last.fn = <<"analyze_email_content">>
    /\ last.out.invoked = 0
    /\ last.out.cmds = <<"get">>
    /\ \E e \in store : e.key = last.key /\ e.at + TickStep = last.at /\ e.ttl = 3600

\* C20: whatever the state of the store (working, failing on read, failing
\* on write, holding under the key a value that cannot be deserialized),
\* the caller of the cached analyze_email_content with a well-formed email
\* gets no exception and a result with every field of an analysis.
C20_AlwaysCompleteResult ==
    last.op = "call" /\ last.fn = <<"analyze_email_content">> =>
        /\ ~last.out.raised
        /\ last.out.ret.t = "dict"
        /\ {"summary", "sentiment", "entities", "categories", "importance_score",
            "action_items", "topics"} \subseteq DOMAIN last.out.ret.d

\* The number of keys a command sees under the namespace prefix.
KeysUnderPrefix ==
    Cardinality({e.key : e \in {x \in SeenKeys(last.before, last.at) :
                                  x.key.pre = "intellimail:cache:"}})

\* C22 as stated: in every state of the store, reachable or not,
\* get_cache_stats raises nothing and returns the five fields, total_keys
\* being the number of keys under the namespace prefix.
C22_Original ==
    last.op = "stats" =>
        /\ ~last.out.raised
        /\ DOMAIN last.out.ret = {"total_keys", "memory_used", "hits", "misses", "uptime"}
        /\ last.out.ret.total_keys = KeysUnderPrefix

\* C22 as amended: get_cache_stats never raises; with the store answering
\* it returns the five fields, total_keys being the number of keys under
\* the namespace prefix; with INFO or KEYS failing it returns the record
\* {error, status: "unavailable"} instead.
C22_StatsRecord ==
    last.op = "stats" =>
        /\ ~last.out.raised
        /\ last.fault = "none" =>
               /\ DOMAIN last.out.ret =
                      {"total_keys", "memory_used", "hits", "misses", "uptime"}
               /\ last.out.ret.total_keys = KeysUnderPrefix
        /\ last.fault # "none" =>
               /\ DOMAIN last.out.ret = {"error", "status"}
               /\ last.out.ret.status = "unavailable"

\* Statistics of a store holding two analyses, three keys of another client
\* under the prefix and one outside it: 5 keys.
C22_Witness ==
    /\ last.op = "stats" /\ last.fault = "none"
    /\ Cardinality(last.before) = 6
    /\ \E e \in last.before : e.key.pre = ""
    /\ last.out.ret.total_keys = 5

\* The path the wrapper call that has just returned took.
WrapperPath ==
    IF last.env \notin {"unset", "TRUE"} THEN "disabled"
    ELSE IF last.fault = "get" THEN "lookup failure"
    ELSE IF ~MissedLookup THEN "hit"
    ELSE IF last.func.val.t = "object" THEN "serialization failure"
    ELSE IF last.fault = "setex" THEN "store-write failure"
    ELSE "miss"

\* C23: on every path of the wrapper (cache disabled, hit, miss, lookup
\* failure, serialization failure, store-write failure) the wrapped function
\* is called at most once: not at all on a hit, exactly once on every other
\* path.
C23_InvokedAtMostOnce ==
    last.op = "call" =>
        /\ last.out.invoked \in {0, 1}
        /\ WrapperPath = "hit" => last.out.invoked = 0 /\ last.calls = <<>>
        /\ WrapperPath # "hit" => last.out.invoked = 1

\* An analysis whose write failed after the function was called once, the
\* store holding the entry of another call.
C23_Witness ==
    /\ last.op = "call" /\ WrapperPath = "store-write failure"
    /\ last.out.invoked = 1
    /\ last.fn = <<"analyze_email_content">> /\ Len(last.calls) > 0
    /\ \E e \in last.before : e.key.pre = CachePrefix /\ e.key # last.key /\ e.key.md5 # <<>>

\* invalidate_cache has returned.
InvalidationReturned == kq # Idle /\ kq.pc = "returned"

\* The entries the store holds under a key the pattern of the invalidation
\* matches.
MatchingEntries ==
    {e \in Visible(store, now) :
        e.key.pre = CachePrefix /\ GlobMatch(kq.pattern \o <<"*">>, NameTail(e.key))}

\* C24: once invalidate_cache(pattern) has returned, the store holds no
\* entry under a matching key that was written by a wrapper call which had
\* read its miss before the invalidation started (an entry of the store is
\* that of the last SETEX carried out).
C24_NoStaleReinsert ==
    InvalidationReturned /\ MatchingEntries # {} /\ StoreLog # <<>> =>
        StoreLog[Len(StoreLog)].by \notin kq.pending

\* The calls of a request to the mail provider and to OpenAI.
MailAndAiCalls ==
    {i \in 1..Len(last.calls) : last.calls[i] # "oauth.fetch_token"}

\* C25: in every sequence of requests to the six routes, the mail provider
\* and OpenAI are called only by a request whose session holds credentials;
\* credentials enter a session only through callback; logout removes them;
\* and from a logout until the next callback that stores credentials, the
\* session holds none and every request to /emails or /email/<id> redirects
\* to login without any backend call.
C25_SessionGating ==
    last.op = "request" =>
        /\ MailAndAiCalls # {} => "credentials" \in last.before
        /\ "credentials" \in SessionOf(last.browser) \ last.before => last.route = "callback"
        /\ last.route = "logout" => "credentials" \notin SessionOf(last.browser)
        /\ last.since = "logout" =>
               /\ "credentials" \notin last.before
               /\ last.route \in {"list_emails", "view_email"} =>
                      /\ last.resp = Redirect("login")
                      /\ last.calls = <<>>
        /\ SinceOf(last.browser) = "logout" => "credentials" \notin SessionOf(last.browser)

\* A browser that logged out and went through login again, with no callback
\* yet, asks for /emails and is sent to login, while the other browser
\* holds credentials.
C25_Witness ==
    /\ last.op = "request" /\ last.route = "list_emails" /\ last.since = "logout"
    /\ "state" \in last.before
    /\ last.resp = Redirect("login") /\ last.calls = <<>>
    /\ \E b \in Browsers \ {last.browser} : "credentials" \in SessionOf(b)

====
